---- MODULE Spec2Model ----
(***************************************************************************)
(* Model of src/main.py: the query-parameter validation and response       *)
(* shaping layer in front of the geo search engine (GeoManager).           *)
(*                                                                         *)
(* Python values are tagged records so that values of different Python     *)
(* types can be compared: None, bool, int, float, str, dict and list.      *)
(* A str is a sequence of one-character strings.  A Python dict is a       *)
(* function whose domain is the set of its keys.                           *)
(***************************************************************************)
EXTENDS Integers, Sequences, FiniteSets, TLC

VARIABLES pc, op, method, query_params, calls, response, raised,
          x_in, nullable_in, default_in, result

vars == <<pc, op, method, query_params, calls, response, raised,
          x_in, nullable_in, default_in, result>>

(***************************************************************************)
(* Bounds of the model.                                                    *)
(***************************************************************************)
MaxNum == 2          \* numeric inputs of parse_bool range over -MaxNum..MaxNum
MaxParams == 2       \* query parameters in one direct parse_params call
MaxMatches == 2      \* Search Matches the engine returns for one search

(***************************************************************************)
(* Python values.                                                          *)
(***************************************************************************)
NoneV == [t |-> "none"]
PyBool(b) == [t |-> "bool", b |-> b]
PyInt(i) == [t |-> "int", i |-> i]
\* a float is kept as its doubled value: PyFloat(h) stands for h / 2
PyFloat(h) == [t |-> "float", h |-> h]
PyStr(s) == [t |-> "str", s |-> s]
PyDict(d) == [t |-> "dict", d |-> d]
PyList(l) == [t |-> "list", l |-> l]

EmptyDict == <<>>

\* d.get(k, dflt) on a Python dict
Get(d, k, dflt) == IF k \in DOMAIN d THEN d[k] ELSE dflt

(***************************************************************************)
(* Text: str.lower(), str.upper(), int(str).                               *)
(***************************************************************************)
LowerAlpha == <<"a","b","c","d","e","f","g","h","i","j","k","l","m",
                "n","o","p","q","r","s","t","u","v","w","x","y","z">>
UpperAlpha == <<"A","B","C","D","E","F","G","H","I","J","K","L","M",
                "N","O","P","Q","R","S","T","U","V","W","X","Y","Z">>
DigitChars == <<"0","1","2","3","4","5","6","7","8","9">>

IndexIn(seq, c) == CHOOSE i \in 1..Len(seq) : seq[i] = c
IsIn(seq, c) == \E i \in 1..Len(seq) : seq[i] = c

lower_char(c) == IF IsIn(UpperAlpha, c) THEN LowerAlpha[IndexIn(UpperAlpha, c)] ELSE c
upper_char(c) == IF IsIn(LowerAlpha, c) THEN UpperAlpha[IndexIn(LowerAlpha, c)] ELSE c

lower(s) == [i \in 1..Len(s) |-> lower_char(s[i])]
upper(s) == [i \in 1..Len(s) |-> upper_char(s[i])]

IsDigit(c) == IsIn(DigitChars, c)
DigitVal(c) == IndexIn(DigitChars, c) - 1

RECURSIVE DigitsValue(_)
DigitsValue(s) ==
    IF s = <<>> THEN 0
    ELSE 10 * DigitsValue(SubSeq(s, 1, Len(s) - 1)) + DigitVal(s[Len(s)])

RECURSIVE Strip(_)
\* str.strip() of blanks, which int() applies to its argument
Strip(s) ==
    IF s = <<>> THEN s
    ELSE IF Head(s) = " " THEN Strip(Tail(s))
    ELSE IF s[Len(s)] = " " THEN Strip(SubSeq(s, 1, Len(s) - 1))
    ELSE s

\* int(v): [ok |-> TRUE, i |-> n], or ok = FALSE where Python raises ValueError.
\* An int is returned as it is; text is an optional sign and decimal digits
\* between optional blanks (the inputs of the model hold no underscores).
\* The handlers apply it to an int default or to a parameter's text only.
py_int(v) ==
    IF v.t = "int" THEN [ok |-> TRUE, i |-> v.i]
    ELSE IF v.t = "bool" THEN [ok |-> TRUE, i |-> IF v.b THEN 1 ELSE 0]
    ELSE IF v.t # "str" THEN [ok |-> FALSE, i |-> 0]
    ELSE LET s == Strip(v.s)
             signed == s # <<>> /\ Head(s) \in {"-", "+"}
             digits == IF signed THEN Tail(s) ELSE s
         IN  IF digits # <<>> /\ \A i \in 1..Len(digits) : IsDigit(digits[i])
             THEN [ok |-> TRUE,
                   i |-> IF signed /\ Head(s) = "-"
                         THEN 0 - DigitsValue(digits) ELSE DigitsValue(digits)]
             ELSE [ok |-> FALSE, i |-> 0]

\* truthiness of the values `or` is applied to
Truthy(v) ==
    CASE v.t = "none" -> FALSE
      [] v.t = "bool" -> v.b
      [] v.t = "int" -> v.i # 0
      [] v.t = "float" -> v.h # 0
      [] v.t = "str" -> v.s # <<>>
      [] v.t = "dict" -> DOMAIN v.d # {}
      [] v.t = "list" -> v.l # <<>>

(***************************************************************************)
(* parse_bool                                                              *)
(***************************************************************************)
Affirmative == { <<"y","e","s">>, <<"y">>, <<"t","r","u","e">>, <<"t">>, <<"1">> }
Negative == { <<"n","o">>, <<"n">>, <<"f","a","l","s","e">>, <<"f">>, <<"0">> }

parse_bool_no_lower(x, nullable, default) ==
    IF x.t = "bool" THEN x
    ELSE IF x.t = "int" THEN PyBool(x.i > 0)
    ELSE IF x.t = "float" THEN PyBool(x.h > 0)
    ELSE IF x.t = "str" /\ x.s \in Affirmative THEN PyBool(TRUE)
    ELSE IF x.t = "str" /\ x.s \in Negative THEN PyBool(FALSE)
    ELSE IF nullable THEN NoneV
    ELSE PyBool(default)

parse_bool(x, nullable, default) ==
    IF x.t = "bool" THEN x
    ELSE IF x.t = "int" THEN PyBool(x.i > 0)
    ELSE IF x.t = "float" THEN PyBool(x.h > 0)
    ELSE IF x.t = "str" /\ lower(x.s) \in Affirmative THEN PyBool(TRUE)
    ELSE IF x.t = "str" /\ lower(x.s) \in Negative THEN PyBool(FALSE)
    ELSE IF nullable THEN NoneV
    ELSE PyBool(default)

(***************************************************************************)
(* parse_params                                                            *)
(***************************************************************************)
allowed_params == { "is_zip_code", "is_aggregate", "is_three_digit_zip_code",
                    "geo_type", "ref_data.country", "ref_data.state_prov" }

\* str(val) of the values a query parameter can hold
py_str(val) == IF val.t = "str" THEN val.s ELSE <<>>

params_func_any_length(key, val) ==
    IF key \in {"ref_data.country", "ref_data.state_prov"}
    THEN PyStr(upper(py_str(val)))
    ELSE parse_bool(val, TRUE, FALSE)

params_func(key, val) ==
    IF key \in {"ref_data.country", "ref_data.state_prov"}
    THEN IF Len(py_str(val)) = 2 THEN PyStr(upper(py_str(val))) ELSE NoneV
    ELSE parse_bool(val, TRUE, FALSE)

parse_params_keep_empty(qp) ==
    LET included_params == { param \in DOMAIN qp : param \in allowed_params }
        kept == { k \in included_params : params_func(k, PyStr(qp[k])) # NoneV }
    IN  IF included_params # {}
        THEN PyDict([k \in kept |-> params_func(k, PyStr(qp[k]))])
        ELSE NoneV

\* query_params maps a parameter name to its text
parse_params(qp) ==
    LET included_params == { param \in DOMAIN qp : param \in allowed_params }
        kept == { k \in included_params : params_func(k, PyStr(qp[k])) # NoneV }
        params == [k \in kept |-> params_func(k, PyStr(qp[k]))]
    IN  IF included_params # {} /\ DOMAIN params # {}
        THEN PyDict(params)
        ELSE NoneV

(***************************************************************************)
(* Inputs.                                                                 *)
(***************************************************************************)
\* every way to write the word w in upper and lower case letters
CaseVariants(w) ==
    { [i \in 1..Len(w) |-> IF i \in S THEN upper_char(w[i]) ELSE w[i]] :
         S \in SUBSET (1..Len(w)) }

OtherWords == { <<>>, <<"m","a","y","b","e">>, <<"2">>, <<"o","n">>,
                <<"y","e">>, <<"y","e","s","s">>, <<"1","0">>, <<"-","1">>,
                <<"u","s">>, <<"n","u","l","l">> }

BoolTexts == UNION { CaseVariants(w) : w \in Affirmative \cup Negative \cup OtherWords }

BoolInputs ==
    { NoneV, PyList(<<>>), PyDict(EmptyDict) }
      \cup { PyBool(b) : b \in BOOLEAN }
      \cup { PyInt(i) : i \in (0 - MaxNum)..MaxNum }
      \cup { PyFloat(h) : h \in (0 - MaxNum)..MaxNum }
      \cup { PyStr(s) : s \in BoolTexts }

FilterTexts == { <<"y","e","s">>, <<"N","O">>, <<"0">>, <<"u","s">>, <<"T","x">>,
                 <<"u","s","a">>, <<>>, <<"c","i","t","y">> }

ParamKeys == allowed_params \cup { "q", "unknown" }

ParamDicts ==
    UNION { [S -> FilterTexts] :
              S \in { T \in SUBSET ParamKeys : Cardinality(T) <= MaxParams } }

(***************************************************************************)
(* Responses.                                                              *)
(***************************************************************************)
NoResponse == [status |-> 0, kind |-> "none"]

\* json_response(data, status): make_response with Content-Type application/json
json_response(data, status) ==
    [status |-> status, kind |-> "json", data |-> data]

\* make_response(f"{callback}({json.dumps(search_res)});", 200)
callback_response(callback, data) ==
    [status |-> 200, kind |-> "script", callback |-> callback, data |-> data]

\* the texts of the error messages (the first without its two backquotes)
MsgMissingQuery == <<"M","u","s","t"," ","p","r","o","v","i","d","e"," ","q","u","e","r","y"," ","s","t","r","i","n","g"," ","?","q","=","<","q","u","e","r","y"," ","s","t","r","i","n","g",">">>
MsgRadius == <<"r","a","d","i","u","s"," ","m","u","s","t"," ","b","e"," ","g","r","e","a","t","e","r"," ","t","h","a","n"," ","1">>
MsgNotFound == <<"n","o","t"," ","f","o","u","n","d">>

Error(msg) == PyDict([error |-> PyStr(msg)])
Healthy == PyDict([heathly |-> PyBool(TRUE)])

\* what running a handler leaves behind: the response or the exception it
\* raised, and the engine calls it made, in order
Responded(resp, cs) == [response |-> resp, raised |-> "none", calls |-> cs]
Raised(exc, cs) == [response |-> NoResponse, raised |-> exc, calls |-> cs]

Call(fn, args, ret) == [fn |-> fn, args |-> args, ret |-> ret]

\* query_params.get(k, dflt) of the request's parameters, whose values are text
Param(qp, k, dflt) == IF k \in DOMAIN qp THEN PyStr(qp[k]) ELSE dflt

(***************************************************************************)
(* fuzzy_search: GET /api/search/                                          *)
(***************************************************************************)
\* `or 8` replaces an absent or empty num_results
default_num_results(v) == IF Truthy(v) THEN v ELSE PyInt(8)

missing_query_falsy(search_param) == ~Truthy(search_param)

missing_query(search_param) == search_param = NoneV

wants_ref_truthy(qp) == Truthy(Param(qp, "include_ref", NoneV))

wants_ref(qp) == Param(qp, "include_ref", NoneV) # NoneV

\* the Response Record of one Search Match x
search_record(x, include_ref) ==
    LET extra == Get(x, "extra", PyDict(EmptyDict)).d
        id == Get(x, "id", NoneV)
        name == Get(x, "value", PyStr(<<>>))
        shape_id == Get(extra, "id", NoneV)
    IN  IF include_ref
        THEN PyDict([id |-> id, name |-> name,
                     ref |-> Get(extra, "ref_data", PyDict(EmptyDict)),
                     shape_id |-> shape_id])
        ELSE PyDict([id |-> id, name |-> name, shape_id |-> shape_id])

search_res(fuzzy_res, include_ref) ==
    PyList([i \in 1..Len(fuzzy_res) |-> search_record(fuzzy_res[i], include_ref)])

\* fuzzy_res is what GeoManager.fuzzy_search returns if it is called
fuzzy_search(m, qp, fuzzy_res) ==
    IF m # "GET" THEN Responded(json_response(Healthy, 200), <<>>)
    ELSE
    LET search_param == Param(qp, "q", NoneV)
        num_results == default_num_results(Param(qp, "num_results", PyInt(8)))
        callback == Param(qp, "callback", NoneV)
    IN  IF missing_query(search_param)
        THEN Responded(json_response(Error(MsgMissingQuery), 400), <<>>)
        ELSE
        LET filters == parse_params(qp)
            n == py_int(num_results)
        IN  IF ~n.ok THEN Raised("ValueError", <<>>)
            ELSE
            LET cs == << Call("fuzzy_search",
                              <<search_param, PyInt(n.i), filters>>,
                              PyList(fuzzy_res)) >>
                res == search_res(fuzzy_res, wants_ref(qp))
            IN  IF callback # NoneV
                THEN Responded(callback_response(callback, res), cs)
                ELSE Responded(json_response(res, 200), cs)

(***************************************************************************)
(* fetch: GET /api/fetch/                                                  *)
(***************************************************************************)
\* by_id and by_code are what GeoManager.get_shape_by_id and
\* GeoManager.get_shape_by_ref_code return if they are called
fetch(m, qp, by_id, by_code) ==
    IF m # "GET" THEN Responded(json_response(Healthy, 200), <<>>)
    ELSE
    LET shape_id == Param(qp, "shape_id", NoneV)
        shape_ref_code == Param(qp, "shape_ref_code", NoneV)
        id == py_int(shape_id)
        found(ref_result, cs) ==
            IF ref_result = NoneV
            THEN Responded(json_response(Error(MsgNotFound), 404), cs)
            ELSE Responded(json_response(ref_result, 200), cs)
    IN  IF shape_id # NoneV
        THEN IF ~id.ok THEN Raised("ValueError", <<>>)
             ELSE found(by_id, << Call("get_shape_by_id", <<PyInt(id.i)>>, by_id) >>)
        ELSE IF shape_ref_code # NoneV
        THEN found(by_code, << Call("get_shape_by_ref_code",
                                    <<PyStr(lower(shape_ref_code.s))>>, by_code) >>)
        ELSE found(NoneV, <<>>)

(***************************************************************************)
(* radius_search: GET /api/radius/                                         *)
(***************************************************************************)
coerce_country_exact(qp) == parse_bool(Param(qp, "country_exact", PyBool(FALSE)), TRUE, FALSE)

\* resolved and radius_result are what GeoManager.get_shape_ref_code and
\* GeoManager.radius_search return if they are called
radius_search(m, qp, resolved, radius_result) ==
    IF m # "GET" THEN Responded(json_response(Healthy, 200), <<>>)
    ELSE
    LET shape_id == Param(qp, "shape_id", NoneV)
        radius == py_int(Param(qp, "radius", PyInt(50)))
        country_exact == coerce_country_exact(qp)
        id == py_int(shape_id)
        cs1 == IF shape_id # NoneV
               THEN << Call("get_shape_ref_code", <<PyInt(id.i)>>, resolved) >>
               ELSE <<>>
        shape_ref_code == IF shape_id # NoneV THEN resolved
                          ELSE Param(qp, "shape_ref_code", NoneV)
        cs2 == Append(cs1, Call("radius_search",
                                <<shape_ref_code, PyInt(radius.i), country_exact>>,
                                radius_result))
    IN  IF ~radius.ok THEN Raised("ValueError", <<>>)
        ELSE IF shape_id # NoneV /\ ~id.ok THEN Raised("ValueError", <<>>)
        ELSE IF radius.i < 1
        THEN Responded(json_response(Error(MsgRadius), 404), cs1)
        ELSE IF shape_ref_code = NoneV
        THEN Responded(json_response(Error(MsgNotFound), 404), cs1)
        ELSE IF radius_result = NoneV
        THEN Responded(json_response(Error(MsgNotFound), 404), cs2)
        ELSE Responded(json_response(radius_result, 200), cs2)

(***************************************************************************)
(* Requests and what the engine returns.                                   *)
(***************************************************************************)
Methods == { "GET", "OPTIONS" }

\* a parameter that may be absent: <<>> or <<text>>
Opt(V) == { <<>> } \cup { <<v>> : v \in V }
One(k, o) == IF o = <<>> THEN EmptyDict ELSE [x \in {k} |-> o[1]]

QueryTexts == { <<"s","p","r","i","n","g">>, <<>> }
NumTexts == { <<>>, <<"0">>, <<"5">>, <<"a","b","c">>, <<"1",".","5">> }
CallbackTexts == { <<"c","b">> }
IncludeRefTexts == { <<>>, <<"1">> }
FilterParams == { EmptyDict,
                  [k \in {"is_zip_code"} |-> <<"Y","e","s">>],
                  [k \in {"geo_type"} |-> <<"c","i","t","y">>],
                  [k \in {"ref_data.country", "is_aggregate"} |->
                      IF k = "is_aggregate" THEN <<"0">> ELSE <<"u","s">>],
                  [k \in {"ref_data.state_prov"} |-> <<"t","e","x">>] }

ShapeIdTexts == { <<"5">>, <<"0">>, <<>>, <<"a","b","c">> }
RefCodeTexts == { <<"A","b","C">>, <<"u","s">> }
RadiusTexts == { <<"0">>, <<"1">>, <<"1","0">>, <<"-","3">>, <<" ","0">>,
                 <<>>, <<"t","e","n">> }
CountryExactTexts == { <<"T","r","u","e">>, <<"n","o">>, <<"m","a","y","b","e">>, <<>> }

RefData == PyDict([country |-> PyStr(<<"U","S">>)])
Matches ==
    { [id |-> PyInt(1), value |-> PyStr(<<"a">>),
       extra |-> PyDict([id |-> PyInt(7), ref_data |-> RefData])],
      [id |-> PyInt(2), value |-> PyStr(<<"b">>),
       extra |-> PyDict([ref_data |-> RefData])],
      [id |-> PyInt(3), value |-> PyStr(<<"c">>)],
      [value |-> PyStr(<<"d">>), extra |-> PyDict([id |-> PyInt(9)])],
      [id |-> PyInt(5), extra |-> PyDict([id |-> PyInt(5), ref_data |-> RefData])] }

MatchLists == UNION { [1..n -> Matches] : n \in 0..MaxMatches }

Shapes == { PyDict([id |-> PyInt(5), ref_code |-> PyStr(<<"a","b","c">>)]),
            PyDict([id |-> PyInt(6), ref_code |-> PyStr(<<"u","s">>)]) }
ResolvedCodes == { NoneV, PyStr(<<"a","b","c">>), PyStr(<<"z","i","p">>) }
RadiusResults == { NoneV, PyList(<<>>) } \cup { PyList(<<sh>>) : sh \in Shapes }

Init ==
    /\ pc = "idle"
    /\ op = "none"
    /\ method = "GET"
    /\ query_params = EmptyDict
    /\ calls = <<>>
    /\ response = NoResponse
    /\ raised = "none"
    /\ x_in = NoneV
    /\ nullable_in = TRUE
    /\ default_in = FALSE
    /\ result = NoneV

ParseBoolCall ==
    /\ pc = "idle"
    /\ \E x \in BoolInputs, nullable \in BOOLEAN, default \in BOOLEAN :
          /\ x_in' = x
          /\ nullable_in' = nullable
          /\ default_in' = default
          /\ result' = parse_bool(x, nullable, default)
    /\ pc' = "done"
    /\ op' = "parse_bool"
    /\ UNCHANGED <<method, query_params, calls, response, raised>>

ParseParamsCall ==
    /\ pc = "idle"
    /\ \E qp \in ParamDicts :
          /\ query_params' = qp
          /\ result' = parse_params(qp)
    /\ pc' = "done"
    /\ op' = "parse_params"
    /\ UNCHANGED <<method, calls, response, raised, x_in, nullable_in, default_in>>

FuzzySearch ==
    /\ pc = "idle"
    /\ \E m \in Methods, q \in Opt(QueryTexts), num \in Opt(NumTexts),
          cb \in Opt(CallbackTexts), inc \in Opt(IncludeRefTexts),
          fp \in FilterParams, fuzzy_res \in MatchLists :
          LET qp == One("q", q) @@ One("num_results", num) @@ One("callback", cb)
                      @@ One("include_ref", inc) @@ fp
              out == fuzzy_search(m, qp, fuzzy_res)
          IN  /\ method' = m
              /\ query_params' = qp
              /\ calls' = out.calls
              /\ response' = out.response
              /\ raised' = out.raised
    /\ pc' = "done"
    /\ op' = "fuzzy_search"
    /\ UNCHANGED <<x_in, nullable_in, default_in, result>>

Fetch ==
    /\ pc = "idle"
    /\ \E m \in Methods, sid \in Opt(ShapeIdTexts), code \in Opt(RefCodeTexts),
          by_id \in Shapes \cup {NoneV}, by_code \in Shapes \cup {NoneV} :
          LET qp == One("shape_id", sid) @@ One("shape_ref_code", code)
              out == fetch(m, qp, by_id, by_code)
          IN  /\ method' = m
              /\ query_params' = qp
              /\ calls' = out.calls
              /\ response' = out.response
              /\ raised' = out.raised
    /\ pc' = "done"
    /\ op' = "fetch"
    /\ UNCHANGED <<x_in, nullable_in, default_in, result>>

RadiusSearch ==
    /\ pc = "idle"
    /\ \E m \in Methods, sid \in Opt(ShapeIdTexts), code \in Opt(RefCodeTexts),
          rad \in Opt(RadiusTexts), ce \in Opt(CountryExactTexts),
          resolved \in ResolvedCodes, radius_result \in RadiusResults :
          LET qp == One("shape_id", sid) @@ One("shape_ref_code", code)
                      @@ One("radius", rad) @@ One("country_exact", ce)
              out == radius_search(m, qp, resolved, radius_result)
          IN  /\ method' = m
              /\ query_params' = qp
              /\ calls' = out.calls
              /\ response' = out.response
              /\ raised' = out.raised
    /\ pc' = "done"
    /\ op' = "radius_search"
    /\ UNCHANGED <<x_in, nullable_in, default_in, result>>

\* the call or request is over; the next one starts from scratch
Return ==
    /\ pc = "done"
    /\ pc' = "idle"
    /\ op' = "none"
    /\ method' = "GET"
    /\ query_params' = EmptyDict
    /\ calls' = <<>>
    /\ response' = NoResponse
    /\ raised' = "none"
    /\ x_in' = NoneV
    /\ nullable_in' = TRUE
    /\ default_in' = FALSE
    /\ result' = NoneV

Next ==
    \/ ParseBoolCall
    \/ ParseParamsCall
    \/ FuzzySearch
    \/ Fetch
    \/ RadiusSearch
    \/ Return

Spec == Init /\ [][Next]_vars

(***************************************************************************)
(* Properties.                                                             *)
(***************************************************************************)
Handlers == { "fuzzy_search", "fetch", "radius_search" }

\* a GET request to handler h has been handled
Handled(h) == pc = "done" /\ op = h /\ method = "GET"

HasResponse == raised = "none" /\ response.kind # "none"
IsError(msg, status) ==
    HasResponse /\ response.status = status /\ response.data = Error(msg)

EqIgnoreCase(s, w) ==
    Len(s) = Len(w) /\ \A i \in 1..Len(w) : upper_char(s[i]) = upper_char(w[i])
IsAffirmative(s) == \E w \in Affirmative : EqIgnoreCase(s, w)
IsNegative(s) == \E w \in Negative : EqIgnoreCase(s, w)

BoolKeys == { "is_zip_code", "is_aggregate", "is_three_digit_zip_code", "geo_type" }
CodeKeys == { "ref_data.country", "ref_data.state_prov" }

\* the validated value of filter key k with text s: <<v>>, or <<>> when omitted
Validated(k, s) ==
    IF k \in BoolKeys
    THEN IF IsAffirmative(s) THEN << PyBool(TRUE) >>
         ELSE IF IsNegative(s) THEN << PyBool(FALSE) >>
         ELSE <<>>
    ELSE IF Len(s) = 2 THEN << PyStr(upper(s)) >> ELSE <<>>

\* C1: every GET request to the search, fetch and radius handlers produces a
\* response, a success payload or a structured error with an `error` field,
\* whatever the parameter values; no parameter value raises an unhandled fault.
C1_AlwaysResponds ==
    \A h \in Handlers :
       Handled(h) =>
          /\ HasResponse
          /\ \/ response.status = 200
             \/ response.data.t = "dict" /\ "error" \in DOMAIN response.data.d

\* C2: parse_params returns exactly the mapping from each recognized key of
\* the input whose validator yields a value to that value; it holds no
\* unrecognized key and no None, and it is None, never an empty mapping, when
\* nothing is kept.
C2_ParseParamsExact ==
    (pc = "done" /\ op = "parse_params") =>
       LET K == DOMAIN query_params \cap (BoolKeys \cup CodeKeys)
           kept == { k \in K : Validated(k, query_params[k]) # <<>> }
       IN  /\ result # PyDict(EmptyDict)
           /\ IF kept = {} THEN result = NoneV
              ELSE /\ result.t = "dict"
                   /\ DOMAIN result.d = kept
                   /\ \A k \in kept : result.d[k] = Validated(k, query_params[k])[1]
           /\ result.t = "dict" =>
                 \A k \in DOMAIN result.d :
                    k \in DOMAIN query_params /\ k \in BoolKeys \cup CodeKeys
                       /\ result.d[k] # NoneV

\* parse_params dropped an unrecognized key and an invalid value and kept an
\* upper-cased two-letter code
C2_Witness ==
    /\ pc = "done" /\ op = "parse_params"
    /\ \E k \in DOMAIN query_params :
          /\ k \in CodeKeys
          /\ query_params[k] = <<"T","x">>
          /\ result = PyDict([j \in {k} |-> PyStr(<<"T","X">>)])
    /\ Cardinality(DOMAIN query_params) >= 2

\* C3: parse_bool is total and agrees with the reference: a bool is returned
\* unchanged, a number v gives v > 0, text matching an affirmative word
\* ignoring case gives true and a negative word false, and anything else gives
\* None when nullable and the default otherwise.
C3_ParseBoolReference ==
    (pc = "done" /\ op = "parse_bool") =>
       result =
          CASE x_in.t = "bool" -> x_in
            [] x_in.t = "int" -> PyBool(x_in.i > 0)
            [] x_in.t = "float" -> PyBool(x_in.h > 0)
            [] x_in.t = "str" /\ IsAffirmative(x_in.s) -> PyBool(TRUE)
            [] x_in.t = "str" /\ ~IsAffirmative(x_in.s) /\ IsNegative(x_in.s) -> PyBool(FALSE)
            [] OTHER -> IF nullable_in THEN NoneV ELSE PyBool(default_in)

\* parse_bool accepted a word written in mixed case
C3_Witness ==
    /\ pc = "done" /\ op = "parse_bool"
    /\ x_in = PyStr(<<"F","a","L","s","e">>)
    /\ ~nullable_in /\ default_in
    /\ result = PyBool(FALSE)

\* C4: a GET search without `q` gets status 400 with the message that a query
\* string must be provided, whatever other parameters are present; a GET
\* search with `q` is never answered with that error.
C4_MissingQuery ==
    Handled("fuzzy_search") =>
       IF "q" \in DOMAIN query_params
       THEN ~(HasResponse /\ (response.status = 400 \/ response.data = Error(MsgMissingQuery)))
       ELSE IsError(MsgMissingQuery, 400) /\ calls = <<>>

\* a search without `q` but with a non-numeric num_results and a callback was
\* rejected with status 400
C4_Witness ==
    /\ Handled("fuzzy_search")
    /\ "q" \notin DOMAIN query_params
    /\ "callback" \in DOMAIN query_params
    /\ "num_results" \in DOMAIN query_params
    /\ query_params["num_results"] = <<"a","b","c">>
    /\ response.status = 400

RadiusCalls == { i \in 1..Len(calls) : calls[i].fn = "radius_search" }
ResolveCalls == { i \in 1..Len(calls) : calls[i].fn = "get_shape_ref_code" }

\* C5: a GET radius request whose radius coerces to an integer below 1 gets
\* the error "radius must be greater than 1" with status 404, whichever of
\* shape_id and shape_ref_code are supplied and whatever the engine resolves,
\* and the engine's radius query is not invoked; an absent radius is 50 and
\* does not produce this error.
C5_RadiusBelowOne ==
    Handled("radius_search") =>
       /\ ( /\ "radius" \in DOMAIN query_params
            /\ py_int(PyStr(query_params["radius"])).ok
            /\ py_int(PyStr(query_params["radius"])).i < 1 )
          => (IsError(MsgRadius, 404) /\ RadiusCalls = {})
       /\ "radius" \notin DOMAIN query_params =>
             /\ ~IsError(MsgRadius, 404)
             /\ \A i \in RadiusCalls : calls[i].args[2] = PyInt(50)

\* C6: with shape_id supplied the engine's radius query is only invoked with
\* the code the engine resolved from it, and a resolution to None gives status
\* 404 even if shape_ref_code was supplied too; with shape_id absent the
\* supplied shape_ref_code is used unchanged, and with no reference code
\* available the outcome is not-found.
C6_ResolvedCodeSupersedes ==
    Handled("radius_search") =>
       /\ "shape_id" \in DOMAIN query_params =>
             /\ \A i \in RadiusCalls :
                   /\ ResolveCalls # {}
                   /\ \A j \in ResolveCalls : j < i /\ calls[i].args[1] = calls[j].ret
             /\ \A j \in ResolveCalls :
                   calls[j].ret = NoneV =>
                      (HasResponse /\ response.status = 404 /\ RadiusCalls = {})
       /\ "shape_id" \notin DOMAIN query_params =>
             /\ ResolveCalls = {}
             /\ \A i \in RadiusCalls :
                   /\ "shape_ref_code" \in DOMAIN query_params
                   /\ calls[i].args[1] = PyStr(query_params["shape_ref_code"])
             /\ "shape_ref_code" \notin DOMAIN query_params =>
                   (HasResponse /\ response.status = 404 /\ RadiusCalls = {})

\* C7: the country_exact argument handed to the engine's radius query is
\* false when the parameter is absent and always a definite boolean, never
\* None, whatever text the parameter holds.
C7_CountryExactDefinite ==
    Handled("radius_search") =>
       \A i \in RadiusCalls :
          /\ calls[i].args[3] \in { PyBool(TRUE), PyBool(FALSE) }
          /\ "country_exact" \notin DOMAIN query_params => calls[i].args[3] = PyBool(FALSE)

\* C8: a GET fetch makes at most one engine lookup: by numeric id whenever
\* shape_id is present, by the lower-cased shape_ref_code only when shape_id is
\* absent and shape_ref_code present, none when both are absent; the response
\* is "not found" with status 404 exactly when no lookup was made or it
\* returned None, and otherwise status 200 with the engine's payload unchanged.
C8_FetchLookup ==
    Handled("fetch") =>
       /\ Len(calls) <= 1
       /\ IF "shape_id" \in DOMAIN query_params
          THEN /\ Len(calls) = 1
               /\ calls[1].fn = "get_shape_by_id"
               /\ calls[1].args[1].t = "int"
          ELSE IF "shape_ref_code" \in DOMAIN query_params
          THEN /\ Len(calls) = 1
               /\ calls[1].fn = "get_shape_by_ref_code"
               /\ calls[1].args[1].s = lower(query_params["shape_ref_code"])
               /\ \A i \in 1..Len(calls[1].args[1].s) :
                     ~IsIn(UpperAlpha, calls[1].args[1].s[i])
          ELSE calls = <<>>
       /\ IF calls = <<>> \/ calls[1].ret = NoneV
          THEN IsError(MsgNotFound, 404)
          ELSE HasResponse /\ response.status = 200 /\ response.data = calls[1].ret

\* C9: for a GET search with `q` the success response holds one Response
\* Record per Search Match, in the engine's order (an empty engine result
\* gives a success response with an empty array); without include_ref every
\* record has exactly the keys id, name, shape_id, and with include_ref, of any
\* value, exactly id, name, ref, shape_id with ref the match's extra.ref_data;
\* shape_id is the match's extra.id and None when that is missing.
C9_ResponseRecords ==
    (Handled("fuzzy_search") /\ "q" \in DOMAIN query_params /\ HasResponse) =>
       LET matches == calls[1].ret.l
           records == response.data.l
           has_extra(x) == "extra" \in DOMAIN x
       IN  /\ Len(calls) = 1
           /\ response.status = 200
           /\ Len(records) = Len(matches)
           /\ \A i \in 1..Len(matches) :
                 LET x == matches[i]
                     r == records[i].d
                 IN  /\ DOMAIN r = IF "include_ref" \in DOMAIN query_params
                                   THEN {"id", "name", "ref", "shape_id"}
                                   ELSE {"id", "name", "shape_id"}
                     /\ r.id = IF "id" \in DOMAIN x THEN x.id ELSE NoneV
                     /\ "value" \in DOMAIN x => r.name = x.value
                     /\ r.shape_id = IF has_extra(x) /\ "id" \in DOMAIN x.extra.d
                                     THEN x.extra.d.id ELSE NoneV
                     /\ ("ref" \in DOMAIN r /\ has_extra(x)
                            /\ "ref_data" \in DOMAIN x.extra.d)
                           => r.ref = x.extra.d.ref_data

\* a search with an empty include_ref answered two matches, the second without
\* extra.id, with extended records
C9_Witness ==
    /\ Handled("fuzzy_search") /\ HasResponse
    /\ "include_ref" \in DOMAIN query_params
    /\ query_params["include_ref"] = <<>>
    /\ response.status = 200
    /\ response.data.t = "list"
    /\ Len(response.data.l) = 2
    /\ response.data.l[1].d.shape_id = PyInt(7)
    /\ response.data.l[2].d.shape_id = NoneV
    /\ response.data.l[2].d.ref = RefData

\* C10: no engine call happens before every input validation of the request
\* has passed: a request rejected by validation (search without `q`, radius
\* below 1) has made no engine call at all.
C10_ValidateBeforeEngine ==
    /\ (Handled("fuzzy_search") /\ IsError(MsgMissingQuery, 400)) => calls = <<>>
    /\ (Handled("radius_search") /\ IsError(MsgRadius, 404)) => calls = <<>>

====
